---- MODULE Spec2Model ----
(***************************************************************************)
(* Model of the Cypress-to-Playwright converter of                         *)
(* src/components/interfaces.py: convert_cypress_code and                  *)
(* _convert_advanced_patterns.  Program text is a TLA+ string and every    *)
(* rule is applied to it as the code applies it: a substring test          *)
(* followed by str.replace for the table rules, re.findall followed by     *)
(* str.replace for the regex rules.  In the explanation entries the        *)
(* bullet and the arrow of the source are written "* " and " -> ".         *)
(***************************************************************************)
EXTENDS Integers, Sequences, FiniteSets, TLC

(***************************************************************************)
(* Bounds of the model.                                                    *)
(***************************************************************************)
\* number of statements of an input text
MaxStmts == 2
\* number of successive convert calls, each on the code the last returned
MaxCalls == 2
\* number of update_progress calls for one (user_id, module_id) pair
MaxUpdates == 3

(***************************************************************************)
(* Python string primitives.                                               *)
(***************************************************************************)
\* s[i:] with a 1-based i
Drop(s, i) == SubSeq(s, i, Len(s))

\* s.startswith(p) at the 1-based position i
StartsWithAt(s, p, i) ==
  /\ i + Len(p) - 1 <= Len(s)
  /\ SubSeq(s, i, i + Len(p) - 1) = p

\* s.startswith(p)
StartsWith(s, p) == StartsWithAt(s, p, 1)

\* p in s
Contains(s, p) ==
  LET n == Len(p) - 1
  IN \E i \in 1..(Len(s) - n) : SubSeq(s, i, i + n) = p

\* s.find(p, i): the first position >= i where p occurs, 0 when there is none
IndexOf(s, p, i) ==
  LET n == Len(p) - 1
      hits == {j \in i..(Len(s) - n) : SubSeq(s, j, j + n) = p}
  IN IF hits = {} THEN 0 ELSE CHOOSE j \in hits : \A h \in hits : j <= h

\* s.replace(old, new, 1): the first occurrence only
ReplaceFirst(s, old, new) ==
  LET i == IndexOf(s, old, 1)
  IN IF i = 0 THEN s
     ELSE SubSeq(s, 1, i - 1) \o new \o SubSeq(s, i + Len(old), Len(s))

\* s.replace(old, new): every non-overlapping occurrence, left to right
RECURSIVE Replace(_, _, _)
Replace(s, old, new) ==
  LET i == IndexOf(s, old, 1)
  IN IF i = 0 THEN s
     ELSE SubSeq(s, 1, i - 1) \o new \o Replace(Drop(s, i + Len(old)), old, new)

\* s.count(p): the number of non-overlapping occurrences
RECURSIVE Count(_, _)
Count(s, p) ==
  LET i == IndexOf(s, p, 1)
  IN IF i = 0 THEN 0 ELSE 1 + Count(Drop(s, i + Len(p)), p)

\* "\n".join(parts)
RECURSIVE Join(_)
Join(parts) ==
  IF Len(parts) = 0 THEN ""
  ELSE IF Len(parts) = 1 THEN parts[1]
  ELSE parts[1] \o "\n" \o Join(Tail(parts))

\* validate_javascript_syntax(code)[0] of src/utils/helpers.py
validate_javascript_syntax(code) ==
  /\ Count(code, "(") = Count(code, ")")
  /\ Count(code, "{") = Count(code, "}")
  /\ Count(code, "[") = Count(code, "]")

(***************************************************************************)
(* The rule table of convert_cypress_code.  A Python dict iterates in      *)
(* insertion order, so a category is the sequence of its                   *)
(* <<cypress_pattern, playwright_pattern>> pairs.                          *)
(***************************************************************************)
\* conversions["basic_syntax"], in insertion order (10 rules)
basic_syntax ==
  <<<<"cy.get(", "page.locator(">>,
     <<"cy.visit(", "await page.goto(">>,
     <<"cy.url()", "page.url()">>,
     <<".type(", ".fill(">>,
     <<".click()", ".click()">>,
     <<".should('be.visible')", "await expect(...).toBeVisible()">>,
     <<".should('contain',", "await expect(...).toContainText(">>,
     <<"describe(", "test.describe(">>,
     <<"it(", "test(">>,
     <<"beforeEach(", "test.beforeEach(async ({ page }) => {">> >>

\* conversions["assertions"], in insertion order (15 rules)
assertions ==
  <<<<"cy.url().should('include',", "await expect(page).toHaveURL(/.*">>,
     <<"cy.url().should('eq',", "await expect(page).toHaveURL(">>,
     <<"cy.url().should('equal',", "await expect(page).toHaveURL(">>,
     <<"cy.url().should('contain',", "await expect(page).toHaveURL(/.*">>,
     <<"cy.url().should('match',", "await expect(page).toHaveURL(">>,
     <<".should('be.visible')", "await expect(locator).toBeVisible()">>,
     <<".should('not.exist')", "await expect(locator).not.toBeVisible()">>,
     <<".should('contain',", "await expect(locator).toContainText(">>,
     <<".should('have.text',", "await expect(locator).toHaveText(">>,
     <<".should('have.value',", "await expect(locator).toHaveValue(">>,
     <<".should('have.length',", "await expect(locator).toHaveCount(">>,
     <<".should('be.empty')", "await expect(locator).toBeEmpty()">>,
     <<".should('be.enabled')", "await expect(locator).toBeEnabled()">>,
     <<".should('be.disabled')", "await expect(locator).toBeDisabled()">>,
     <<".should('have.class',", "await expect(locator).toHaveClass(">> >>

\* conversions["commands"], in insertion order (9 rules)
commands ==
  <<<<"cy.get(", "page.locator(">>,
     <<"cy.visit(", "await page.goto(">>,
     <<"cy.url()", "page.url()">>,
     <<"cy.intercept(", "await page.route(">>,
     <<"cy.fixture(", "// Use test data factory instead">>,
     <<"cy.wrap(", "// Use direct variable assignment instead">>,
     <<"cy.contains(", "page.getByText(">>,
     <<".each(", ".map(async (element, index) => {">>,
     <<".as('", "// Use variable assignment instead of alias">> >>

\* conversions["waiting"], in insertion order (6 rules)
waiting ==
  <<<<".should('be.visible')", "await expect(locator).toBeVisible()">>,
     <<".should('exist')", "await expect(locator).toBeAttached()">>,
     <<".should('not.exist')", "await expect(locator).not.toBeAttached()">>,
     <<"cy.get(", "await page.locator(">>,
     <<"cy.waitUntil(", "await page.waitForFunction(">>,
     <<"cy.wait().then(", "// Use direct async/await instead">> >>

\* conversions["advanced"], in insertion order (13 rules)
advanced ==
  <<<<"cy.request(", "await request.newContext().request(">>,
     <<"cy.intercept('GET',", "await page.route('GET', ">>,
     <<"cy.intercept('POST',", "await page.route('POST', ">>,
     <<"cy.intercept('PUT',", "await page.route('PUT', ">>,
     <<"cy.intercept('DELETE',", "await page.route('DELETE', ">>,
     <<"cy.wait('@", "await page.waitForResponse(">>,
     <<"cy.task(", "// Use custom functions or direct Node.js code">>,
     <<"Cypress.Commands.add(", "// Convert to Page Object Model method">>,
     <<"Cypress.env(", "process.env.">>,
     <<"window.localStorage.setItem(", "await page.evaluate(() => localStorage.setItem(">>,
     <<"window.localStorage.getItem(", "await page.evaluate(() => localStorage.getItem(">>,
     <<".its('response.statusCode')", "// Use response object directly">>,
     <<".fixture(", "// Use JSON import or test data factory">> >>

\* conversions["url_navigation"], in insertion order (13 rules)
url_navigation ==
  <<<<"cy.visit(", "await page.goto(">>,
     <<"cy.url()", "page.url()">>,
     <<"cy.go('back')", "await page.goBack()">>,
     <<"cy.go('forward')", "await page.goForward()">>,
     <<"cy.reload()", "await page.reload()">>,
     <<"cy.url().should('include',", "await expect(page).toHaveURL(/.*">>,
     <<"cy.url().should('eq',", "await expect(page).toHaveURL(">>,
     <<"cy.url().should('equal',", "await expect(page).toHaveURL(">>,
     <<"cy.url().should('contain',", "await expect(page).toHaveURL(/.*">>,
     <<"cy.url().should('match',", "await expect(page).toHaveURL(">>,
     <<"cy.location('search').should('include',", "await expect(page).toHaveURL(/.*">>,
     <<"cy.location('pathname').should('include',", "await expect(page).toHaveURL(/.*">>,
     <<"cy.location('hash').should('include',", "await expect(page).toHaveURL(/.*">> >>

\* conversions["architectural"], in insertion order (13 rules)
architectural ==
  <<<<"cy.window().then(", "await page.evaluate(">>,
     <<"cy.window().its(", "await page.evaluate(() => window.">>,
     <<"cy.window()", "await page.evaluate(() => window)">>,
     <<"Cypress.Commands.add(", "// Convert to Page Object Model method or helper function">>,
     <<".invoke(", "await page.evaluate(">>,
     <<".its(", "// Use page.evaluate() for property access">>,
     <<"cy.stub(", "// Use page.route() for network mocking instead">>,
     <<"cy.spy(", "// Use page.evaluate() for function monitoring">>,
     <<"cy.wrap(", "// Use direct async/await instead of wrapping">>,
     <<".as('", "// Use variable assignment: const alias = ">>,
     <<"cy.get('@", "// Use the stored variable directly">>,
     <<".should('have.property',", "// Use page.evaluate() to check properties">>,
     <<".should('have.been.called", "// Use page.route() with callback tracking">> >>

\* conversions["fixtures_commands"], in insertion order (8 rules)
fixtures_commands ==
  <<<<"cy.fixture(", "// Import JSON directly or use data loading utility">>,
     <<"Cypress.Commands.add(", "// Convert to helper function or Page Object method">>,
     <<"cy.task(", "// Use direct function calls or utility classes">>,
     <<"Cypress.env(", "process.env.">>,
     <<".as('", "// Use variable assignment instead of alias">>,
     <<"cy.get('@", "// Use the stored variable directly">>,
     <<"beforeEach(", "test.beforeEach(async ({ page }) => {">>,
     <<"before(", "test.beforeAll(async ({ browser }) => {">> >>

conversions ==
  [basic_syntax |-> basic_syntax,
   assertions |-> assertions,
   commands |-> commands,
   waiting |-> waiting,
   advanced |-> advanced,
   url_navigation |-> url_navigation,
   architectural |-> architectural,
   fixtures_commands |-> fixtures_commands]
(***************************************************************************)
(* The subset of Python's re that _convert_advanced_patterns uses.  A      *)
(* pattern is a sequence of elements: a literal, one character of a class, *)
(* or a greedy repetition of a class, which may capture.  In each pattern  *)
(* of the source a repetition is followed by a character outside its own   *)
(* class, so the greedy match is the only match and no backtracking is     *)
(* needed.                                                                 *)
(***************************************************************************)
Lower == <<"a", "b", "c", "d", "e", "f", "g", "h", "i", "j", "k", "l", "m",
           "n", "o", "p", "q", "r", "s", "t", "u", "v", "w", "x", "y", "z">>

Upper == <<"A", "B", "C", "D", "E", "F", "G", "H", "I", "J", "K", "L", "M",
           "N", "O", "P", "Q", "R", "S", "T", "U", "V", "W", "X", "Y", "Z">>

Digits == {"0", "1", "2", "3", "4", "5", "6", "7", "8", "9"}

Letters == {Lower[k] : k \in 1..26} \cup {Upper[k] : k \in 1..26}

\* a character class: the characters listed, or (neg) all the others
Quote == [neg |-> FALSE, chars |-> {"'", "\""}]

NotQuote == [neg |-> TRUE, chars |-> {"'", "\""}]

Space == [neg |-> FALSE, chars |-> {" ", "\t", "\n", "\r", "\f"}]

Digit == [neg |-> FALSE, chars |-> Digits]

Alpha == [neg |-> FALSE, chars |-> Letters]

AlphaNum == [neg |-> FALSE, chars |-> Letters \cup Digits]

NotCloseParen == [neg |-> TRUE, chars |-> {")"}]

NotComma == [neg |-> TRUE, chars |-> {","}]

InClass(c, cls) == (c \in cls.chars) # cls.neg

Lit(str) == [t |-> "lit", s |-> str]

One(cls) == [t |-> "one", cls |-> cls]

\* cls* (min = 0) or cls+ (min = 1); cap: the repetition is a group
Rep(cls, min, cap) == [t |-> "rep", cls |-> cls, min |-> min, cap |-> cap]

\* the length of the longest run of characters of cls that starts at i
RECURSIVE Span(_, _, _)
Span(s, i, cls) ==
  IF i > Len(s) THEN 0
  ELSE IF InClass(SubSeq(s, i, i), cls) THEN 1 + Span(s, i + 1, cls)
  ELSE 0

\* match the elements k.. of pattern re at position i of s
RECURSIVE MatchFrom(_, _, _, _, _)
MatchFrom(s, i, re, k, caps) ==
  IF k > Len(re) THEN [ok |-> TRUE, end |-> i, caps |-> caps]
  ELSE LET e == re[k]
       IN CASE e.t = "lit" ->
                 IF StartsWithAt(s, e.s, i)
                 THEN MatchFrom(s, i + Len(e.s), re, k + 1, caps)
                 ELSE [ok |-> FALSE, end |-> i, caps |-> caps]
            [] e.t = "one" ->
                 IF i <= Len(s) /\ InClass(SubSeq(s, i, i), e.cls)
                 THEN MatchFrom(s, i + 1, re, k + 1, caps)
                 ELSE [ok |-> FALSE, end |-> i, caps |-> caps]
            [] e.t = "rep" ->
                 LET n == Span(s, i, e.cls)
                 IN IF n < e.min
                    THEN [ok |-> FALSE, end |-> i, caps |-> caps]
                    ELSE MatchFrom(s, i + n, re, k + 1,
                           IF e.cap THEN Append(caps, SubSeq(s, i, i + n - 1))
                           ELSE caps)

\* re.finditer: the non-overlapping matches of re in s from position i on,
\* left to right, each as [start, end, caps].  Every pattern of the source
\* starts with a literal and matches no empty string.
RECURSIVE FindIter(_, _, _)
FindIter(s, re, i) ==
  LET j == IndexOf(s, re[1].s, i)
  IN IF j = 0 THEN <<>>
     ELSE LET m == MatchFrom(s, j + Len(re[1].s), re, 2, <<>>)
          IN IF m.ok
             THEN <<[start |-> j, end |-> m.end, caps |-> m.caps]>>
                  \o FindIter(s, re, m.end)
             ELSE FindIter(s, re, j + 1)

\* re.findall for a pattern with groups: the captures of each match
FindAll(s, re) ==
  LET ms == FindIter(s, re, 1) IN [k \in 1..Len(ms) |-> ms[k].caps]

\* re.findall for a pattern that is one group as a whole: the matched texts
FindAllWhole(s, re) ==
  LET ms == FindIter(s, re, 1)
  IN [k \in 1..Len(ms) |-> SubSeq(s, ms[k].start, ms[k].end - 1)]

\* re.search(...) is not None
Search(s, re) == Len(FindIter(s, re, 1)) > 0

\* re.sub(re, repl, s) for a pattern that is a single literal
SubLit(s, re, repl) == Replace(s, re[1].s, repl)

\* the characters re.escape puts a backslash before (Python 3.7 and later)
EscapeChars ==
  {"(", ")", "[", "]", "{", "}", "?", "*", "+", "-", "|", "^", "$", "\\",
   ".", "&", "~", "#", " ", "\t", "\n", "\r", "\f"}

\* re.escape(s)
RECURSIVE Escape(_)
Escape(s) ==
  IF Len(s) = 0 THEN ""
  ELSE LET c == SubSeq(s, 1, 1)
       IN (IF c \in EscapeChars THEN "\\" \o c ELSE c) \o Escape(Drop(s, 2))

\* c.lower() of one character
LowerChar(c) ==
  IF \E k \in 1..26 : Upper[k] = c
  THEN Lower[CHOOSE k \in 1..26 : Upper[k] = c]
  ELSE c

\* s.lower()
RECURSIVE ToLower(_)
ToLower(s) ==
  IF Len(s) = 0 THEN "" ELSE LowerChar(SubSeq(s, 1, 1)) \o ToLower(Drop(s, 2))

(***************************************************************************)
(* _convert_advanced_patterns.  The working state of a conversion is the   *)
(* code and the list of explanation entries.                               *)
(***************************************************************************)
\* an explanation entry "old -> new"
Entry(old, new) == "* " \o old \o " -> " \o new

\* for ... in matches: code = code.replace(old, new); explanations.append(...)
RECURSIVE ApplySubs(_, _, _)
ApplySubs(st, subs, k) ==
  IF k > Len(subs) THEN st
  ELSE ApplySubs([code |-> Replace(st.code, subs[k].old, subs[k].new),
                  expl |-> Append(st.expl, subs[k].note),
                  raised |-> st.raised], subs, k + 1)

contains_basic_pattern ==
  <<Lit("cy.contains("), One(Quote), Rep(NotQuote, 1, TRUE), One(Quote),
    Lit(")")>>

contains_selector_pattern ==
  <<Lit("cy.contains("), One(Quote), Rep(NotQuote, 1, TRUE), One(Quote),
    Rep(Space, 0, FALSE), Lit(","), Rep(Space, 0, FALSE), One(Quote),
    Rep(NotQuote, 1, TRUE), One(Quote), Lit(")")>>

unidentified_cy_pattern ==
  <<Lit("cy."), One(Alpha), Rep(AlphaNum, 0, FALSE), Lit("("),
    Rep(NotCloseParen, 0, FALSE), Lit(")")>>

known_patterns ==
  <<"cy.get(", "cy.visit(", "cy.url(", "cy.wait(", "cy.intercept(",
    "cy.contains(", "cy.fixture(", "cy.wrap(", "cy.window(", "cy.location(",
    "cy.go(", "cy.reload(", "cy.request(", "cy.task(", "cy.stub(",
    "cy.spy(", "cy.waitUntil(">>

ShouldInclude(subject) ==
  <<Lit(subject \o ".should('include',"), Rep(Space, 0, FALSE), One(Quote),
    Rep(NotQuote, 1, TRUE), One(Quote), Lit(")")>>

location_search_pattern == ShouldInclude("cy.location('search')")

location_pathname_pattern == ShouldInclude("cy.location('pathname')")

location_hash_pattern == ShouldInclude("cy.location('hash')")

include_pattern == ShouldInclude("cy.url()")

eq_pattern ==
  <<Lit("cy.url().should('eq',"), Rep(Space, 0, FALSE), One(Quote),
    Rep(NotQuote, 1, TRUE), One(Quote), Lit(")")>>

contain_pattern ==
  <<Lit("cy.url().should('contain',"), Rep(Space, 0, FALSE), One(Quote),
    Rep(NotQuote, 1, TRUE), One(Quote), Lit(")")>>

\* the composite pattern with the status code left out of the groups
wait_its_should_one_group ==
  <<Lit("cy.wait('@"), Rep(NotQuote, 1, TRUE),
    Lit("').its('response.statusCode').should('eq',"), Rep(Space, 0, FALSE),
    Rep(Digit, 1, FALSE), Lit(")")>>

wait_its_should_pattern ==
  <<Lit("cy.wait('@"), Rep(NotQuote, 1, TRUE),
    Lit("').its('response.statusCode').should('eq',"), Rep(Space, 0, FALSE),
    Rep(Digit, 1, TRUE), Lit(")")>>

wait_its_pattern ==
  <<Lit("cy.wait('@"), Rep(NotQuote, 1, TRUE),
    Lit("').its('response.statusCode')")>>

wait_alias_pattern == <<Lit("cy.wait('@"), Rep(NotQuote, 1, TRUE), Lit("')")>>

wait_number_pattern == <<Lit("cy.wait("), Rep(Digit, 1, TRUE), Lit(")")>>

its_response_pattern == <<Lit(".its('response.statusCode')")>>

status_should_pattern ==
  <<Lit(".status().should('eq',"), Rep(Space, 0, FALSE), Rep(Digit, 1, TRUE),
    Lit(")")>>

should_eq_pattern ==
  <<Lit(".should('eq',"), Rep(Space, 0, FALSE), Rep(Digit, 1, TRUE), Lit(")")>>

wait_until_pattern ==
  <<Lit("cy.waitUntil(() => "), Rep(NotCloseParen, 1, TRUE), Lit(")")>>

alias_pattern ==
  <<Lit(".as("), One(Quote), Rep(NotQuote, 1, TRUE), One(Quote), Lit(")")>>

get_alias_pattern == <<Lit("cy.get('@"), Rep(NotQuote, 1, TRUE), Lit("')")>>

\* \s*([^)]+) matches the same texts as ([^)]+): a blank is in [^)]
each_pattern ==
  <<Lit(".each(($"), Rep(NotComma, 1, TRUE), Lit(","),
    Rep(NotCloseParen, 1, TRUE), Lit(")"), Rep(Space, 0, FALSE), Lit("=>"),
    Rep(Space, 0, FALSE), Lit("{")>>

wrap_pattern == <<Lit("cy.wrap($"), Rep(NotCloseParen, 1, TRUE), Lit(")")>>

\* the chain that the composite rule replaces, and what it puts there
CompositeChain(alias, status_code) ==
  "cy.wait('@" \o alias \o "').its('response.statusCode').should('eq', "
    \o status_code \o ")"

CompositeForm(alias, status_code) ==
  "expect((await page.waitForResponse('**/" \o alias \o "**')).status()).toBe("
    \o status_code \o ")"

\* the glob that the alias-wait rule derives from the alias name
AliasGlob(alias) ==
  IF \/ Contains(ToLower(alias), "api")
     \/ Contains(ToLower(alias), "request")
     \/ Contains(ToLower(alias), "get")
  THEN "**/*"
       \o ToLower(Replace(Replace(Replace(alias, "get", ""), "api", ""),
                          "data", ""))
       \o "*"
  ELSE "**/" \o alias \o "**"

\* old_pattern: the text a rule replaces, for a match m of its pattern
old_pattern(rule, m) ==
  CASE rule = "contains_basic" ->
          "cy.contains('" \o m[1] \o "')"
    [] rule = "contains_selector" ->
          "cy.contains('" \o m[1] \o "', '" \o m[2] \o "')"
    [] rule = "location_search" ->
          "cy.location('search').should('include', '" \o m[1] \o "')"
    [] rule = "location_pathname" ->
          "cy.location('pathname').should('include', '" \o m[1] \o "')"
    [] rule = "location_hash" ->
          "cy.location('hash').should('include', '" \o m[1] \o "')"
    [] rule = "include" ->
          "cy.url().should('include', '" \o m[1] \o "')"
    [] rule = "eq" ->
          "cy.url().should('eq', '" \o m[1] \o "')"
    [] rule = "contain" ->
          "cy.url().should('contain', '" \o m[1] \o "')"
    [] rule = "wait_its_should" ->
          CompositeChain(m[1], m[2])
    [] rule = "wait_its" ->
          "cy.wait('@" \o m[1] \o "').its('response.statusCode')"
    [] rule = "wait_alias" ->
          "cy.wait('@" \o m[1] \o "')"
    [] rule = "wait_number" ->
          "cy.wait(" \o m[1] \o ")"
    [] rule = "status_should" ->
          ".status().should('eq', " \o m[1] \o ")"
    [] rule = "should_eq" ->
          ".should('eq', " \o m[1] \o ")"
    [] rule = "wait_until" ->
          "cy.waitUntil(() => " \o m[1] \o ")"
    [] rule = "alias" ->
          ".as('" \o m[1] \o "')"
    [] rule = "get_alias" ->
          "cy.get('@" \o m[1] \o "')"
    [] rule = "wrap" ->
          "cy.wrap($" \o m[1] \o ")"

\* new_pattern: the text a rule puts in its place
new_pattern(rule, m) ==
  CASE rule = "contains_basic" ->
          "page.getByText('" \o m[1] \o "')"
    [] rule = "contains_selector" ->
          "page.locator('" \o m[1] \o "').getByText('" \o m[2] \o "')"
    [] rule = "location_search" ->
          "await expect(page).toHaveURL(/.*\\?.*" \o Escape(m[1]) \o ".*/)"
    [] rule = "location_pathname" ->
          "await expect(page).toHaveURL(/.*" \o Escape(m[1]) \o ".*/)"
    [] rule = "location_hash" ->
          "await expect(page).toHaveURL(/.*#" \o Escape(m[1]) \o ".*/)"
    [] rule = "include" ->
          "await expect(page).toHaveURL(/.*" \o Escape(m[1]) \o ".*/)"
    [] rule = "eq" ->
          "await expect(page).toHaveURL('" \o m[1] \o "')"
    [] rule = "contain" ->
          "await expect(page).toHaveURL(/.*" \o Escape(m[1]) \o ".*/)"
    [] rule = "wait_its_should" ->
          CompositeForm(m[1], m[2])
    [] rule = "wait_its" ->
          "(await page.waitForResponse('**/" \o m[1] \o "**')).status()"
    [] rule = "wait_alias" ->
          "await page.waitForResponse('" \o AliasGlob(m[1]) \o "')"
    [] rule = "wait_number" ->
          "await page.waitForTimeout(" \o m[1] \o ")"
    [] rule = "status_should" ->
          ".status()).toBe(" \o m[1] \o ")"
    [] rule = "should_eq" ->
          " === " \o m[1]
    [] rule = "wait_until" ->
          "await page.waitForFunction(() => " \o m[1] \o ")"
    [] rule = "alias" ->
          "// Store in variable: const " \o m[1] \o " = "
    [] rule = "get_alias" ->
          m[1]
    [] rule = "wrap" ->
          "// Use direct locator methods on " \o m[1]

\* the explanation entry a rule appends for a match
explanation_entry(rule, m) ==
  CASE rule = "wait_number" ->
          Entry(old_pattern(rule, m), new_pattern(rule, m))
            \o " (consider using auto-wait instead)"
    [] rule = "status_should" ->
          Entry(old_pattern(rule, m), "expect(..." \o new_pattern(rule, m))
    [] rule = "should_eq" ->
          Entry(old_pattern(rule, m), new_pattern(rule, m))
            \o " (direct comparison)"
    [] rule = "alias" ->
          "* Alias .as('" \o m[1] \o "') -> Use variable assignment"
    [] rule = "get_alias" ->
          Entry(old_pattern(rule, m), "Use variable " \o m[1])
    [] rule = "wrap" ->
          Entry(old_pattern(rule, m), "Use direct locator operations")
    [] OTHER -> Entry(old_pattern(rule, m), new_pattern(rule, m))

\* the replacements of one regex rule, one per match: what to replace, by
\* what, and the explanation entry
Subs(ms, rule) ==
  [k \in 1..Len(ms) |->
     [old |-> old_pattern(rule, ms[k]), new |-> new_pattern(rule, ms[k]),
      note |-> explanation_entry(rule, ms[k])]]

\* one regex rule: findall on the code, then one replacement per match
Rule(st, re, rule) == ApplySubs(st, Subs(FindAll(st.code, re), rule), 1)

\* `for a, b in matches` unpacks each match into two names: a tuple of two
\* groups, or (a pattern with one group yields strings) a string of length 2
Unpacks2(m) == IF Len(m) = 1 THEN Len(m[1]) = 2 ELSE Len(m) = 2

\* the matches before the first one that does not unpack
Unpackable(ms) ==
  SubSeq(ms, 1, IF \A k \in 1..Len(ms) : Unpacks2(ms[k]) THEN Len(ms)
                ELSE (CHOOSE k \in 1..Len(ms) :
                        /\ ~Unpacks2(ms[k])
                        /\ \A j \in 1..(k - 1) : Unpacks2(ms[j])) - 1)

\* ValueError when the loop reaches a match that does not unpack
RaiseIfNot(ok, st) == IF ok THEN st ELSE [st EXCEPT !.raised = "ValueError"]

\* what Rule2 does with the matches ms of its pattern
Unpacking(st, ms, rule) ==
  RaiseIfNot(\A k \in 1..Len(ms) : Unpacks2(ms[k]),
             ApplySubs(st, Subs(Unpackable(ms), rule), 1))

\* a regex rule whose loop unpacks two groups
Rule2(st, re, rule) == Unpacking(st, FindAll(st.code, re), rule)

ContainsBasic(st) == Rule(st, contains_basic_pattern, "contains_basic")

ContainsSelector(st) == Rule2(st, contains_selector_pattern, "contains_selector")

\* any(cy_command.startswith(known) for known in known_patterns)
IsKnown(cy_command) ==
  \E k \in 1..Len(known_patterns) : StartsWith(cy_command, known_patterns[k])

ReviewComment(cy_command) ==
  "// TODO: Manual review needed - possible custom command: " \o cy_command

\* the loop over remaining_cy_commands
RECURSIVE FlagUnidentified(_, _, _)
FlagUnidentified(st, cmds, k) ==
  IF k > Len(cmds) THEN st
  ELSE IF ~IsKnown(cmds[k]) /\ Contains(st.code, cmds[k])
  THEN FlagUnidentified(
         [code |-> Replace(st.code, cmds[k], ReviewComment(cmds[k])),
          expl |-> Append(st.expl, Entry(cmds[k], ReviewComment(cmds[k]))),
          raised |-> st.raised],
         cmds, k + 1)
  ELSE FlagUnidentified(st, cmds, k + 1)

Unidentified(st) ==
  FlagUnidentified(st, FindAllWhole(st.code, unidentified_cy_pattern), 1)

LocationSearch(st) == Rule(st, location_search_pattern, "location_search")

LocationPathname(st) == Rule(st, location_pathname_pattern, "location_pathname")

LocationHash(st) == Rule(st, location_hash_pattern, "location_hash")

UrlInclude(st) == Rule(st, include_pattern, "include")

UrlEq(st) == Rule(st, eq_pattern, "eq")

UrlContain(st) == Rule(st, contain_pattern, "contain")

\* the composite rule: wait, status code and comparison in one chain
WaitItsShould(st) == Rule2(st, wait_its_should_pattern, "wait_its_should")

WaitIts(st) == Rule(st, wait_its_pattern, "wait_its")

WaitAlias(st) == Rule(st, wait_alias_pattern, "wait_alias")

WaitNumber(st) == Rule(st, wait_number_pattern, "wait_number")

ItsResponse(st) ==
  IF Search(st.code, its_response_pattern)
  THEN [code |-> SubLit(st.code, its_response_pattern, ".status()"),
        expl |-> Append(st.expl,
                        Entry(".its('response.statusCode')", ".status()")),
        raised |-> st.raised]
  ELSE st

StatusShould(st) == Rule(st, status_should_pattern, "status_should")

ShouldEq(st) == Rule(st, should_eq_pattern, "should_eq")

WaitUntil(st) == Rule(st, wait_until_pattern, "wait_until")

Alias(st) == Rule(st, alias_pattern, "alias")

GetAlias(st) == Rule(st, get_alias_pattern, "get_alias")

Each(st) ==
  IF Search(st.code, each_pattern)
  THEN [code |-> st.code,
        expl |-> Append(st.expl,
          "* .each() -> Use for loop with locator.count() and locator.nth()"),
        raised |-> st.raised]
  ELSE st

Wrap(st) == Rule(st, wrap_pattern, "wrap")

\* the rules from `from` on, in the order the function applies them; an
\* exception ends the function
RECURSIVE AdvancedFrom(_, _)
AdvancedFrom(st, from) ==
  IF st.raised # "" \/ from > 21 THEN st
  ELSE AdvancedFrom(
         CASE from = 1 -> ContainsBasic(st)
           [] from = 2 -> ContainsSelector(st)
           [] from = 3 -> Unidentified(st)
           [] from = 4 -> LocationSearch(st)
           [] from = 5 -> LocationPathname(st)
           [] from = 6 -> LocationHash(st)
           [] from = 7 -> UrlInclude(st)
           [] from = 8 -> UrlEq(st)
           [] from = 9 -> UrlContain(st)
           [] from = 10 -> WaitItsShould(st)
           [] from = 11 -> WaitIts(st)
           [] from = 12 -> WaitAlias(st)
           [] from = 13 -> WaitNumber(st)
           [] from = 14 -> ItsResponse(st)
           [] from = 15 -> StatusShould(st)
           [] from = 16 -> ShouldEq(st)
           [] from = 17 -> WaitUntil(st)
           [] from = 18 -> Alias(st)
           [] from = 19 -> GetAlias(st)
           [] from = 20 -> Each(st)
           [] from = 21 -> Wrap(st),
         from + 1)

\* _convert_advanced_patterns(code): starts from an empty explanation list
ConvertAdvancedPatterns(code) ==
  AdvancedFrom([code |-> code, expl |-> <<>>, raised |-> ""], 1)

(***************************************************************************)
(* convert_cypress_code.                                                   *)
(***************************************************************************)
\* for cypress_pattern, playwright_pattern in conversions[category].items()
RECURSIVE ApplyCategory(_, _, _)
ApplyCategory(st, rules, k) ==
  IF k > Len(rules) THEN st
  ELSE IF Contains(st.code, rules[k][1])
  THEN ApplyCategory(
         [code |-> Replace(st.code, rules[k][1], rules[k][2]),
          expl |-> Append(st.expl, Entry(rules[k][1], rules[k][2])),
          raised |-> st.raised], rules, k + 1)
  ELSE ApplyCategory(st, rules, k + 1)

\* the categories with assertions registered ahead of basic_syntax
categories_assertions_first ==
  <<"assertions", "basic_syntax", "commands", "waiting", "advanced",
    "url_navigation", "architectural", "fixtures_commands">>

categories_to_apply ==
  <<"basic_syntax", "assertions", "commands", "waiting", "advanced",
    "url_navigation", "architectural", "fixtures_commands">>

\* category in conversions
InConversions(category) == category \in DOMAIN conversions

\* conversions[category]: a KeyError when the dict has no such key
Subscript(st, category) ==
  IF category \in DOMAIN conversions
  THEN ApplyCategory(st, conversions[category], 1)
  ELSE [st EXCEPT !.raised = "KeyError"]

\* for category in categories_to_apply: if category in conversions: ...
RECURSIVE ApplyCategories(_, _)
ApplyCategories(st, k) ==
  IF st.raised # "" \/ k > Len(categories_to_apply) THEN st
  ELSE IF InConversions(categories_to_apply[k])
  THEN ApplyCategories(Subscript(st, categories_to_apply[k]), k + 1)
  ELSE ApplyCategories(st, k + 1)

\* explanation_parts.extend(url_explanations), with the code that
\* _convert_advanced_patterns returned
Extend(parts, adv) ==
  [code |-> adv.code, expl |-> parts \o adv.expl, raised |-> adv.raised]

\* st followed by _convert_advanced_patterns on its code
ThenAdvanced(st) ==
  IF st.raised # "" THEN st ELSE Extend(st.expl, ConvertAdvancedPatterns(st.code))

\* a dispatch that applies the tables of all categories in every mode
TableRulesAll(st, conversion_type) ==
  IF conversion_type = "full_conversion" \/ InConversions(conversion_type)
  THEN ApplyCategories(st, 1)
  ELSE [st EXCEPT !.raised = "KeyError"]

\* the table rules of the mode: all categories for full_conversion, else
\* the one category named
TableRules(st, conversion_type) ==
  IF conversion_type = "full_conversion" THEN ApplyCategories(st, 1)
  ELSE Subscript(st, conversion_type)

\* the mode dispatch: both known branches end with the advanced patterns; a
\* mode that is neither full_conversion nor a category converts nothing
Dispatch(cypress_code, conversion_type) ==
  IF conversion_type = "full_conversion" \/ InConversions(conversion_type)
  THEN ThenAdvanced(TableRules([code |-> cypress_code, expl |-> <<>>,
                                raised |-> ""], conversion_type))
  ELSE [code |-> cypress_code, expl |-> <<>>, raised |-> ""]

\* "Add async/await if not present"
AddAsyncNote(st) ==
  IF /\ ~Contains(st.code, "await ")
     /\ Contains(st.code, "page.") \/ Contains(st.code, "expect(")
  THEN [st EXCEPT !.code = "// Add async/await syntax\n" \o st.code,
                  !.expl = Append(st.expl,
                                  "* Added async/await syntax requirement")]
  ELSE st

\* "Add import statement for full conversion"
AddImport(st, conversion_type) ==
  IF /\ conversion_type = "full_conversion"
     /\ Contains(st.code, "test(") \/ Contains(st.code, "expect(")
     /\ ~StartsWith(st.code, "import")
  THEN [st EXCEPT !.code = "import { test, expect } from '@playwright/test';\n\n"
                             \o st.code,
                  !.expl = Append(st.expl,
                                  "* Added required Playwright imports")]
  ELSE st

\* the explanation text, built before the test.test.beforeEach repair
Explanation(parts) ==
  IF Len(parts) > 0 THEN "**Conversion Changes:**\n" \o Join(parts)
  ELSE "No direct conversions needed."

\* "Prevent accidental 'test.test.beforeEach' due to repeated replacement"
FixBeforeEach(st) ==
  IF Contains(st.code, "test.test.beforeEach")
  THEN [st EXCEPT !.code = Replace(st.code, "test.test.beforeEach",
                                   "test.beforeEach"),
                  !.expl = Append(st.expl,
        "* Fixed accidental 'test.test.beforeEach' to 'test.beforeEach'")]
  ELSE st

\* return converted_code, explanation: the explanation text is built from
\* the entries before the repair, explanation_parts gets the repair's entry
Return(st) ==
  IF st.raised # ""
  THEN [code |-> "", explanation |-> "", parts |-> <<>>, raised |-> st.raised]
  ELSE [code |-> FixBeforeEach(st).code, explanation |-> Explanation(st.expl),
        parts |-> FixBeforeEach(st).expl, raised |-> ""]

\* convert_cypress_code(cypress_code, conversion_type): the returned code and
\* explanation, the final explanation_parts, and the exception if one is
\* raised instead
ConvertCypressCode(cypress_code, conversion_type) ==
  Return(AddImport(AddAsyncNote(Dispatch(cypress_code, conversion_type)),
                   conversion_type))

(***************************************************************************)
(* The state machine: a caller holds a source text, calls                  *)
(* convert_cypress_code on it in some mode and may call it again on the    *)
(* code it got back; or it calls _convert_advanced_patterns directly, as   *)
(* src/test_wait_comprehensive.py does.                                    *)
(***************************************************************************)
VARIABLES
  stmts,              \* the statements of the source text
  sep,                \* the text between two statements
  conversion_type,    \* the mode of the calls ("" before the first)
  cypress_code,       \* the argument of the latest call
  converted_code,     \* the code the latest call returned
  explanation,        \* the explanation text the latest call returned
  explanation_parts,  \* the entries of the latest call
  calls,              \* the number of calls made
  entry,              \* the function called: "none", "convert", "advanced"
  outcome,            \* "none", "returned", or the exception raised
  frames,             \* the locals of the calls in progress, per caller
  study               \* the study_progress rows of one pair and its calls

vars == <<stmts, sep, conversion_type, cypress_code, converted_code,
          explanation, explanation_parts, calls, entry, outcome, frames,
          study>>

\* the threads that serve the requests of the interface
Callers == {"c1", "c2"}

\* a caller that is in no call
IdleFrame ==
  [pc |-> "idle", cypress_code |-> "", conversion_type |-> "",
   st |-> [code |-> "", expl |-> <<>>, raised |-> ""],
   explanation |-> "", overlaps |-> FALSE]

NoFrames == [c \in Callers |-> IdleFrame]

(***************************************************************************)
(* StudyService.update_progress of src/services/study_service.py, for one  *)
(* (user_id, module_id) pair.  `study` holds the rows of study_progress    *)
(* for the pair, the number of calls made, the sum of their time_spent     *)
(* arguments, whether the pair had no row at the start, and how the        *)
(* latest call ended.                                                      *)
(***************************************************************************)
\* a column without a value, an attribute that is None; a value v is <<v>>
NULL == <<>>

\* a row as the database stores it when only user_id and module_id are
\* given: the column defaults, applied by the INSERT
DefaultRow ==
  [completed |-> <<FALSE>>, progress_percentage |-> <<0>>,
   time_spent |-> <<0>>, completed_at |-> NULL]

\* StudyProgress(user_id=..., module_id=...): a new object; the column
\* defaults are not applied before the INSERT, the attributes are None
NewProgress ==
  [completed |-> NULL, progress_percentage |-> NULL, time_spent |-> NULL,
   completed_at |-> NULL]

\* no call made; rows is set by the initial condition
NoStudy ==
  [rows |-> <<>>, updates |-> 0, spent |-> 0, fresh |-> TRUE,
   result |-> "none"]

\* the arguments of the calls
Percentages == {0, 50, 100, 120}

Minutes == {0, 1, 2}

\* progress.time_spent += time_spent: None + int raises TypeError
AddMinutes(progress, time_spent) ==
  IF progress.time_spent = NULL
  THEN [raised |-> "TypeError", progress |-> progress]
  ELSE [raised |-> "",
        progress |-> [progress EXCEPT
                        !.time_spent = <<progress.time_spent[1] + time_spent>>]]

\* if progress_percentage >= 100: completed = True, completed_at = now
MarkCompleted(progress, progress_percentage, now) ==
  IF progress_percentage >= 100
  THEN [progress EXCEPT !.completed = <<TRUE>>, !.completed_at = <<now>>]
  ELSE progress

\* the body of update_progress on the object `progress` at time `now`, from
\* the assignment of progress_percentage to the completed test
Assign(progress, progress_percentage, time_spent, now) ==
  LET added == AddMinutes([progress EXCEPT
                             !.progress_percentage = <<progress_percentage>>],
                          time_spent)
  IN IF added.raised # "" THEN added
     ELSE [raised |-> "",
           progress |-> MarkCompleted(added.progress, progress_percentage, now)]

\* update_progress(user_id, module_id, progress_percentage, time_spent):
\* the first row of the pair, or a new object added to the session; an
\* exception leaves through `finally: db.close()` with nothing committed
UpdateProgress ==
  /\ study.updates < MaxUpdates
  /\ \E progress_percentage \in Percentages, time_spent \in Minutes :
       \E r \in {Assign(IF Len(study.rows) > 0 THEN study.rows[1]
                        ELSE NewProgress,
                        progress_percentage, time_spent,
                        study.updates + 1)} :
          study' = [study EXCEPT
                      !.updates = study.updates + 1,
                      !.spent = study.spent + time_spent,
                      !.result = IF r.raised # "" THEN r.raised
                                 ELSE "returned",
                      !.rows = IF r.raised # "" THEN study.rows
                               ELSE IF Len(study.rows) > 0
                               THEN [study.rows EXCEPT ![1] = r.progress]
                               ELSE <<r.progress>>]
  /\ UNCHANGED <<stmts, sep, conversion_type, cypress_code, converted_code,
                 explanation, explanation_parts, calls, entry, outcome,
                 frames>>

\* the table has no row for the pair, or one that was stored with the
\* column defaults
InitStudy ==
  /\ stmts = <<>>
  /\ sep = ";\n"
  /\ conversion_type = ""
  /\ cypress_code = ""
  /\ converted_code = ""
  /\ explanation = ""
  /\ explanation_parts = <<>>
  /\ calls = 0
  /\ entry = "none"
  /\ outcome = "none"
  /\ frames = NoFrames
  /\ \E rows \in {<<>>, <<DefaultRow>>} :
        study = [NoStudy EXCEPT !.rows = rows, !.fresh = (rows = <<>>)]

NextStudy == UpdateProgress

SpecStudy == InitStudy /\ [][NextStudy]_vars

\* the statements an input text is made of: Cypress calls with and without
\* a rule, a test suite, plain JavaScript, and a call that is cut off
Statements ==
  {"cy.wait('@getData').its('response.statusCode').should('eq', 200)",
   "cy.customThing('x')",
   "it('t', () => { cy.visit('/x'); })",
   "cy.wait(2000)",
   "submit(form)",
   "foo(1)",
   "cy.get('#a'"}

\* statements on lines of their own, or on one line
Separators == {";\n", "; "}

\* sep.join(stmts)
RECURSIVE JoinWith(_, _)
JoinWith(ss, s) ==
  IF Len(ss) = 0 THEN ""
  ELSE IF Len(ss) = 1 THEN ss[1]
  ELSE ss[1] \o s \o JoinWith(Tail(ss), s)

\* the source text
Source == JoinWith(stmts, sep)

\* the sequences of up to n statements; none is the empty text
SeqsUpTo(n) == UNION {[1..k -> Statements] : k \in 0..n}

\* the choices of the conversion_type dropdown (interfaces.py, line 949)
ValidModes == {"full_conversion"} \cup DOMAIN conversions

\* a value no branch of the dispatch knows: a topic of the tips dropdown
InvalidModes == {"selectors"}

Init ==
  /\ stmts \in SeqsUpTo(MaxStmts)
  /\ sep \in Separators
  /\ Len(stmts) <= 1 => sep = ";\n"
  /\ conversion_type = ""
  /\ cypress_code = ""
  /\ converted_code = ""
  /\ explanation = ""
  /\ explanation_parts = <<>>
  /\ calls = 0
  /\ entry = "none"
  /\ outcome = "none"
  /\ frames = NoFrames
  /\ study = NoStudy

\* the effect of convert_cypress_code(code, mode) on the caller's state
Call(code, mode) ==
  \E r \in {ConvertCypressCode(code, mode)} :
     /\ conversion_type' = mode
     /\ cypress_code' = code
     /\ converted_code' = r.code
     /\ explanation' = r.explanation
     /\ explanation_parts' = r.parts
     /\ calls' = calls + 1
     /\ entry' = "convert"
     /\ outcome' = IF r.raised = "" THEN "returned" ELSE r.raised
     /\ UNCHANGED <<stmts, sep, frames, study>>

\* convert_cypress_code(source, mode)
Convert ==
  /\ calls = 0
  /\ \E mode \in ValidModes \cup InvalidModes : Call(Source, mode)

\* convert_cypress_code on the code the previous call returned, same mode
ConvertAgain ==
  /\ entry = "convert"
  /\ outcome = "returned"
  /\ calls < MaxCalls
  /\ Call(converted_code, conversion_type)

\* _convert_advanced_patterns(source)
AdvancedOnly ==
  /\ calls = 0
  /\ \E r \in {ConvertAdvancedPatterns(Source)} :
        /\ cypress_code' = Source
        /\ converted_code' = r.code
        /\ explanation_parts' = r.expl
        /\ outcome' = IF r.raised = "" THEN "returned" ELSE r.raised
  /\ calls' = 1
  /\ entry' = "advanced"
  /\ UNCHANGED <<stmts, sep, conversion_type, explanation, frames, study>>

Next == Convert \/ ConvertAgain \/ AdvancedOnly

Spec == Init /\ [][Next]_vars

(***************************************************************************)
(* A second set of inputs: one statement for each construct that the       *)
(* table and the import step treat, each converted once.                   *)
(***************************************************************************)
Forms ==
  {"cy.wait(3000)",
   "cy.url().should('include', '/dashboard')",
   "cy.get('#a').type('hi')",
   "cy.visit('/login')",
   "cy.visit('/edit(1)')",
   "Cypress.Commands.add('login', () => {})",
   "Cypress.Commands.add('logout', () => {})",
   "cy.get('#a').should('be.visible')",
   "import { test, expect } from '@playwright/test'",
   "beforeEach(() => {})",
   "test.beforeEach(() => {})",
   "cy.get('@btn').click()",
   "cy.url().should('include','/dashboard')",
   "cy.wait('@getdata')",
   "cy.wait('@api')"}

InitForms ==
  /\ stmts \in UNION {[1..k -> Forms] : k \in 0..MaxStmts}
  /\ sep \in Separators
  /\ Len(stmts) <= 1 => sep = ";\n"
  /\ conversion_type = ""
  /\ cypress_code = ""
  /\ converted_code = ""
  /\ explanation = ""
  /\ explanation_parts = <<>>
  /\ calls = 0
  /\ entry = "none"
  /\ outcome = "none"
  /\ frames = NoFrames
  /\ study = NoStudy

NextForms == Convert \/ AdvancedOnly

SpecForms == InitForms /\ [][NextForms]_vars

\* the callers of a targeted conversion: statements of several categories,
\* converted once
TargetedForms ==
  {"cy.wait(3000)",
   "cy.get('#a').as('x')",
   "cy.contains('t')",
   "cy.visit('/login')",
   "cy.get('#a').should('be.visible')"}

InitTargeted ==
  /\ stmts \in UNION {[1..k -> TargetedForms] : k \in 0..MaxStmts}
  /\ sep \in Separators
  /\ Len(stmts) <= 1 => sep = ";\n"
  /\ conversion_type = ""
  /\ cypress_code = ""
  /\ converted_code = ""
  /\ explanation = ""
  /\ explanation_parts = <<>>
  /\ calls = 0
  /\ entry = "none"
  /\ outcome = "none"
  /\ frames = NoFrames
  /\ study = NoStudy

NextTargeted == Convert

SpecTargeted == InitTargeted /\ [][NextTargeted]_vars

(***************************************************************************)
(* Concurrent calls.  The interface hands convert_cypress_code to the      *)
(* click handler, and requests are served by several threads.  Each call   *)
(* builds its own conversions table, which it never modifies, and keeps    *)
(* converted_code and explanation_parts in its own frame; the steps of     *)
(* different calls interleave.                                             *)
(***************************************************************************)
CallForms ==
  {"cy.wait(3000)",
   "cy.contains('t')",
   "cy.get('#a').should('be.visible')",
   "beforeEach(() => {})"}

\* the requests: a text and a mode
Requests == CallForms \X {"full_conversion", "assertions"}

\* a reading of the locals that takes those of one caller for all calls
WorkingShared(fs, c) == fs[CHOOSE d \in Callers : TRUE].st

\* converted_code and explanation_parts of the call of c: locals of its frame
Working(fs, c) == fs[c].st

\* some other caller is inside a call
OthersInProgress(c) ==
  \E d \in Callers \ {c} : frames[d].pc \notin {"idle", "returned"}

\* the call of c goes from pc `from` to pc `to` with the locals st
Step(c, from, to, st) ==
  /\ frames[c].pc = from
  /\ frames' = [frames EXCEPT ![c].pc = to, ![c].st = st]
  /\ UNCHANGED <<stmts, sep, conversion_type, cypress_code, converted_code,
                 explanation, explanation_parts, calls, entry, outcome,
                 study>>

\* the call starts: converted_code = cypress_code, explanation_parts = []
Enter(c) ==
  /\ frames[c].pc = "idle"
  /\ \E rq \in Requests :
        frames' = [frames EXCEPT ![c] =
                     [pc |-> "tables", cypress_code |-> rq[1],
                      conversion_type |-> rq[2],
                      st |-> [code |-> rq[1], expl |-> <<>>, raised |-> ""],
                      explanation |-> "",
                      overlaps |-> OthersInProgress(c)]]
  /\ UNCHANGED <<stmts, sep, conversion_type, cypress_code, converted_code,
                 explanation, explanation_parts, calls, entry, outcome,
                 study>>

\* the replace loops of the branch of the mode
ApplyTables(c) ==
  \E r \in {IF frames[c].conversion_type \in ValidModes
            THEN TableRules(Working(frames, c), frames[c].conversion_type)
            ELSE Working(frames, c)} :
     Step(c, "tables", "advanced", r)

\* converted_code, url_explanations = _convert_advanced_patterns(...)
ApplyAdvanced(c) ==
  \E r \in {IF frames[c].conversion_type \in ValidModes
            THEN ThenAdvanced(Working(frames, c))
            ELSE Working(frames, c)} :
     Step(c, "advanced", "note", r)

\* "Add async/await if not present"
Note(c) ==
  \E r \in {AddAsyncNote(Working(frames, c))} : Step(c, "note", "import", r)

\* "Add import statement for full conversion"
Import(c) ==
  \E r \in {AddImport(Working(frames, c), frames[c].conversion_type)} :
     Step(c, "import", "explain", r)

\* explanation = ...
Explain(c) ==
  /\ frames[c].pc = "explain"
  /\ frames' = [frames EXCEPT ![c].pc = "fix",
                  ![c].explanation = Explanation(Working(frames, c).expl)]
  /\ UNCHANGED <<stmts, sep, conversion_type, cypress_code, converted_code,
                 explanation, explanation_parts, calls, entry, outcome,
                 study>>

\* the test.test.beforeEach fix and the return
FixAndReturn(c) ==
  \E r \in {FixBeforeEach(Working(frames, c))} :
     Step(c, "fix", "returned", r)

NextCalls ==
  \E c \in Callers :
     \/ Enter(c)
     \/ ApplyTables(c)
     \/ ApplyAdvanced(c)
     \/ Note(c)
     \/ Import(c)
     \/ Explain(c)
     \/ FixAndReturn(c)

InitCalls ==
  /\ stmts = <<>>
  /\ sep = ";\n"
  /\ conversion_type = ""
  /\ cypress_code = ""
  /\ converted_code = ""
  /\ explanation = ""
  /\ explanation_parts = <<>>
  /\ calls = 0
  /\ entry = "none"
  /\ outcome = "none"
  /\ frames = NoFrames
  /\ study = NoStudy

SpecCalls == InitCalls /\ [][NextCalls]_vars

(***************************************************************************)
(* Vocabulary of the properties.                                           *)
(***************************************************************************)
\* a call of convert_cypress_code has returned
Converted == entry = "convert" /\ outcome = "returned"

\* the first call of convert_cypress_code, on the source text, has returned
ConvertedOnce == Converted /\ calls = 1

\* a character of a JavaScript identifier or member access
NameChars == Letters \cup Digits \cup {"_", "$", "."}

\* text calls the function `name` itself, not a name that ends in it
CallsFunction(text, name) ==
  \E i \in 1..Len(text) :
    /\ StartsWithAt(text, name \o "(", i)
    /\ i = 1 \/ SubSeq(text, i - 1, i - 1) \notin NameChars

\* text has no Cypress-specific syntax: no cy.* call, no Cypress.* access,
\* no .should/.its/.as chain, no describe/it/beforeEach hook
NoCypressSyntax(text) ==
  /\ ~Contains(text, "cy.")
  /\ ~Contains(text, "Cypress.")
  /\ ~Contains(text, ".should(")
  /\ ~Contains(text, ".its(")
  /\ ~Contains(text, ".as(")
  /\ ~CallsFunction(text, "describe")
  /\ ~CallsFunction(text, "it")
  /\ ~CallsFunction(text, "beforeEach")

\* text without its line comments: what is left for JavaScript to run
RECURSIVE LiveCode(_)
LiveCode(text) ==
  LET i == IndexOf(text, "//", 1)
      j == IndexOf(text, "\n", i)
  IN IF i = 0 THEN text
     ELSE IF j = 0 THEN SubSeq(text, 1, i - 1)
     ELSE SubSeq(text, 1, i - 1) \o LiveCode(Drop(text, j))

\* the cy.<name>(...) calls of a text
CyCalls(text) == FindAllWhole(text, unidentified_cy_pattern)

\* statement s is one call of a cy command that no rule knows
IsUnknownCall(s) == CyCalls(s) = <<s>> /\ ~IsKnown(s)

\* the composite chains of a text, each as <<alias, status code>>
Chains(text) == FindAll(text, wait_its_should_pattern)

\* what convert_cypress_code turns statement s into when it is the whole
\* input, before the async note and the import are put in front
Form(s, mode) == FixBeforeEach(Dispatch(s, mode)).code

\* the texts forms[k..] occur in text from position i on, in this order and
\* without overlap
RECURSIVE InOrder(_, _, _, _)
InOrder(text, forms, k, i) ==
  IF k > Len(forms) THEN TRUE
  ELSE LET j == IndexOf(text, forms[k], i)
       IN j # 0 /\ InOrder(text, forms, k + 1, j + Len(forms[k]))

\* the position of the brace that closes the one at position open
CloseOf(text, open) ==
  LET ends == {j \in (open + 1)..Len(text) :
                 Count(SubSeq(text, open + 1, j), "}")
                   = Count(SubSeq(text, open + 1, j), "{") + 1}
  IN IF ends = {} THEN Len(text) ELSE CHOOSE j \in ends : \A e \in ends : j <= e

\* an arrow callback without `async` whose body has an `await`
AwaitInSyncCallback(text) ==
  \E i \in 1..Len(text) :
    /\ StartsWithAt(text, "() => {", i)
    /\ ~(i > 6 /\ SubSeq(text, i - 6, i - 1) = "async ")
    /\ Contains(SubSeq(text, i + 7, CloseOf(text, i + 6)), "await ")

(***************************************************************************)
(* Properties.                                                             *)
(***************************************************************************)
\* C1: a full conversion of the code that a full conversion returned changes
\* nothing: the second pass returns its input and reports no change.
NoDoubleConversion ==
  (Converted /\ calls >= 2 /\ conversion_type = "full_conversion")
    => (converted_code = cypress_code /\ explanation_parts = <<>>)

\* C2: a text without Cypress-specific syntax comes back unchanged, with no
\* applied change and the explanation "No direct conversions needed.", from
\* the first call and from the second.
NoOpRegionsUnchanged ==
  (Converted /\ NoCypressSyntax(Source))
    => /\ converted_code = Source
       /\ explanation_parts = <<>>
       /\ explanation = "No direct conversions needed."

\* C3: full conversion rewrites every chain
\* cy.wait('@A').its('response.statusCode').should('eq', N) of the source to
\* the composite form expect((await page.waitForResponse('**/A**')).status()).toBe(N).
CompositeRuleFirst ==
  (ConvertedOnce /\ conversion_type = "full_conversion")
    => \A k \in 1..Len(Chains(Source)) :
         Contains(converted_code,
                  CompositeForm(Chains(Source)[k][1], Chains(Source)[k][2]))

\* C4: when a chain cy.wait('@A').its('response.statusCode').should('eq', N)
\* is converted, the generic .should('eq', N) rule does not fire on it: the
\* output has no " === N" and no entry reports .should('eq', N) alone.
ChainSpecificity ==
  (calls = 1 /\ outcome = "returned")
    => \A k \in 1..Len(Chains(Source)) :
         /\ ~Contains(converted_code, " === " \o Chains(Source)[k][2])
         /\ \A j \in 1..Len(explanation_parts) :
              ~StartsWith(explanation_parts[j],
                          "* .should('eq', " \o Chains(Source)[k][2] \o ")")

\* C5: an unknown cy command between statements that the mode leaves alone
\* is flagged by a review comment that names it, the entries are not empty,
\* and the statements around it are still live code of the output.
UnknownCommandSafe ==
  (ConvertedOnce /\ conversion_type \in DOMAIN conversions \cup {"full_conversion"})
    => \A k \in 1..Len(stmts) :
         (/\ IsUnknownCall(stmts[k])
          /\ \A j \in 1..Len(stmts) :
               j # k => /\ NoCypressSyntax(stmts[j])
                        /\ Form(stmts[j], conversion_type) = stmts[j])
           => /\ Contains(converted_code, ReviewComment(stmts[k]))
              /\ explanation_parts # <<>>
              /\ \A j \in 1..Len(stmts) :
                   j # k => Contains(LiveCode(converted_code), stmts[j])

\* C6: in every mode, a cy.<name>(...) call that no rule of the mode
\* converted (its text is still in the output) stands in a review comment.
UnconvertedCallsFlagged ==
  (ConvertedOnce /\ conversion_type \in DOMAIN conversions \cup {"full_conversion"})
    => \A k \in 1..Len(CyCalls(Source)) :
         Contains(converted_code, CyCalls(Source)[k])
           => Contains(converted_code, ReviewComment(CyCalls(Source)[k]))

\* C7: a call with a mode that is neither full_conversion nor a category
\* fails with InvalidModeError and returns no report.
InvalidModeFails ==
  (entry = "convert" /\ conversion_type \in InvalidModes)
    => outcome = "InvalidModeError"

\* C8: with a valid mode, convert_cypress_code returns code and explanation
\* for every input text, also an unbalanced or empty one; it never raises.
NeverRaises ==
  (entry = "convert" /\ conversion_type \in DOMAIN conversions \cup {"full_conversion"})
    => /\ outcome = "returned"
       /\ converted_code \in STRING
       /\ explanation \in STRING

\* C8, witness: a full conversion returned code and entries for an input
\* whose parentheses do not balance and that holds a composite chain.
NeverRaisesWitness ==
  /\ ConvertedOnce
  /\ conversion_type = "full_conversion"
  /\ ~validate_javascript_syntax(Source)
  /\ Len(Chains(Source)) > 0
  /\ explanation_parts # <<>>

\* C9: after a conversion no callback that was left without `async` has an
\* `await` in its body.
AsyncPropagated == ConvertedOnce => ~AwaitInSyncCallback(converted_code)

\* C10: for a source of N well-formed calls, the output holds the converted
\* form of every call (what the same mode makes of the call alone), each at
\* a place of its own, in the order of the calls.
OrderPreserved ==
  (/\ ConvertedOnce
   /\ conversion_type \in DOMAIN conversions \cup {"full_conversion"}
   /\ \A k \in 1..Len(stmts) : validate_javascript_syntax(stmts[k]))
    => InOrder(converted_code,
               [k \in 1..Len(stmts) |-> Form(stmts[k], conversion_type)], 1, 1)

\* C10, witness: two different calls, both rewritten, stand in the output
\* in their order.
OrderPreservedWitness ==
  /\ ConvertedOnce
  /\ conversion_type = "assertions"
  /\ Len(stmts) = 2
  /\ stmts[1] # stmts[2]
  /\ \A k \in 1..2 : /\ validate_javascript_syntax(stmts[k])
                     /\ Form(stmts[k], conversion_type) # stmts[k]
  /\ InOrder(converted_code,
             [k \in 1..2 |-> Form(stmts[k], conversion_type)], 1, 1)

(***************************************************************************)
(* Properties of the single constructs.                                    *)
(***************************************************************************)
\* the first call, of either function, has returned
ReturnedOnce == calls = 1 /\ outcome = "returned"

\* some explanation entry contains the text
SomeEntryHas(text) ==
  \E j \in 1..Len(explanation_parts) : Contains(explanation_parts[j], text)

\* the numbers N of the cy.wait(N) calls of a text
FixedWaits(text) == FindAll(text, wait_number_pattern)

\* C11: for every cy.wait(N) of the source, full conversion and
\* _convert_advanced_patterns alone return code with
\* await page.waitForTimeout(N), and an entry advises auto-wait.
FixedWaitConverted ==
  (ReturnedOnce /\ (entry = "advanced" \/ conversion_type = "full_conversion"))
    => \A k \in 1..Len(FixedWaits(Source)) :
         /\ Contains(converted_code,
              "await page.waitForTimeout(" \o FixedWaits(Source)[k][1] \o ")")
         /\ SomeEntryHas("consider using auto-wait instead")

\* the path fragments P of the cy.url().should('include', P) of a text
UrlIncludes(text) == FindAll(text, include_pattern)

\* the body of a JavaScript regex literal that matches the text p: what
\* re.escape escapes, and the slash, which would end the literal
RegexBody(p) == Replace(Escape(p), "/", "\\/")

\* C12: for every cy.url().should('include', P) of the source, the modes
\* full_conversion, url_navigation and assertions return code with
\* await expect(page).toHaveURL(/.*P.*/), P escaped for a regex literal.
UrlIncludeConverted ==
  (ConvertedOnce
     /\ conversion_type \in {"full_conversion", "url_navigation", "assertions"})
    => \A k \in 1..Len(UrlIncludes(Source)) :
         Contains(converted_code,
           "await expect(page).toHaveURL(/.*"
             \o RegexBody(UrlIncludes(Source)[k][1]) \o ".*/)")

\* cy.get(S).type(V), with the groups S and V
get_type_pattern ==
  <<Lit("cy.get("), Rep(NotCloseParen, 0, TRUE), Lit(").type("),
    Rep(NotCloseParen, 0, TRUE), Lit(")")>>

\* the <<S, V>> of the cy.get(S).type(V) of a text
TypeCalls(text) == FindAll(text, get_type_pattern)

\* C13: for every cy.get(S).type(V) of the source, full conversion returns
\* code with page.locator(S).fill(V), inside a function marked async.
TypeFilledAsync ==
  (ConvertedOnce /\ conversion_type = "full_conversion")
    => \A k \in 1..Len(TypeCalls(Source)) :
         /\ Contains(converted_code,
              "page.locator(" \o TypeCalls(Source)[k][1] \o ").fill("
                \o TypeCalls(Source)[k][2] \o ")")
         /\ Contains(converted_code, "async ")

\* cy.visit('U') with a quoted argument, with the group U
visit_pattern ==
  <<Lit("cy.visit("), One(Quote), Rep(NotQuote, 0, TRUE), One(Quote), Lit(")")>>

\* the U of the cy.visit('U') of a text
Visits(text) == FindAll(text, visit_pattern)

\* the modes whose rules include 'cy.visit(' -> 'await page.goto('
VisitModes ==
  {"full_conversion"}
    \cup {c \in DOMAIN conversions :
            \E k \in 1..Len(conversions[c]) : conversions[c][k][1] = "cy.visit("}

\* C14: for every cy.visit('U') of the source, a mode that has the
\* cy.visit( rule returns code with await page.goto('U'), and the it( rule
\* leaves no cy.vistest( behind.
VisitConverted ==
  (ConvertedOnce /\ conversion_type \in VisitModes)
    => /\ \A k \in 1..Len(Visits(Source)) :
            Contains(converted_code, "await page.goto('" \o Visits(Source)[k][1] \o "')")
       /\ ~Contains(converted_code, "cy.vistest(")

\* the number of explanation entries that contain the text
RECURSIVE EntriesWith(_, _)
EntriesWith(parts, text) ==
  IF Len(parts) = 0 THEN 0
  ELSE (IF Contains(parts[1], text) THEN 1 ELSE 0)
         + EntriesWith(Tail(parts), text)

\* C15: full conversion reports every Cypress.Commands.add declaration of
\* the source by an entry of its own: as many entries about
\* Cypress.Commands.add( as the source has declarations.
EachCommandFlagged ==
  (ConvertedOnce /\ conversion_type = "full_conversion")
    => EntriesWith(explanation_parts, "Cypress.Commands.add(")
         = Count(Source, "Cypress.Commands.add(")

\* cy.get(S).should('be.visible'), with the group S
get_visible_pattern ==
  <<Lit("cy.get("), Rep(NotCloseParen, 0, TRUE), Lit(").should('be.visible')")>>

\* the S of the cy.get(S).should('be.visible') of a text
VisibleChecks(text) == FindAll(text, get_visible_pattern)

\* the modes whose rules include .should('be.visible')
VisibleModes ==
  {"full_conversion"}
    \cup {c \in DOMAIN conversions :
            \E k \in 1..Len(conversions[c]) :
               conversions[c][k][1] = ".should('be.visible')"}

\* C16: for every cy.get(S).should('be.visible') of the source, a mode that
\* has the visibility rule returns code with
\* await expect(page.locator(S)).toBeVisible().
VisibleLocatorInExpect ==
  (ConvertedOnce /\ conversion_type \in VisibleModes)
    => \A k \in 1..Len(VisibleChecks(Source)) :
         Contains(converted_code,
           "await expect(page.locator(" \o VisibleChecks(Source)[k][1]
             \o ")).toBeVisible()")

\* the import line that convert_cypress_code puts in front of the code
playwright_import == "import { test, expect } from '@playwright/test'"

\* C17: when the code returned by a full conversion uses test( or expect(,
\* it has exactly one import from '@playwright/test', and it starts with
\* it; an import the input had, wherever it was, is not doubled.
SingleImportOnTop ==
  (/\ ConvertedOnce
   /\ conversion_type = "full_conversion"
   /\ Contains(converted_code, "test(") \/ Contains(converted_code, "expect("))
    => /\ Count(converted_code, "from '@playwright/test'") = 1
       /\ StartsWith(converted_code, playwright_import)

\* no pattern of the category's table occurs in the text
NoTableRule(text, category) ==
  \A k \in 1..Len(conversions[category]) :
     ~Contains(text, conversions[category][k][1])

\* _convert_advanced_patterns returns the text as it is
AdvancedLeaves(text) == ConvertAdvancedPatterns(text).code = text

ExplanationComplete ==
  ConvertedOnce
    => /\ explanation = Explanation(explanation_parts)
       /\ explanation = "No direct conversions needed."
            => converted_code = cypress_code

\* C20: a call that has returned, whatever calls ran interleaved with it,
\* returned the code and the explanation that convert_cypress_code returns
\* for its arguments when it runs alone.
CallsIsolated ==
  \A c \in Callers :
     frames[c].pc = "returned"
       => \E r \in {ConvertCypressCode(frames[c].cypress_code,
                                       frames[c].conversion_type)} :
             /\ frames[c].st.code = r.code
             /\ frames[c].explanation = r.explanation

\* a call that began while another call on a different text was in
\* progress, and returned changed code before the other call ended
CallsIsolatedWitness ==
  \E c \in Callers : \E d \in Callers \ {c} :
     /\ frames[c].pc = "returned"
     /\ frames[c].overlaps
     /\ frames[c].st.code # frames[c].cypress_code
     /\ frames[d].pc \notin {"idle", "returned"}
     /\ frames[d].cypress_code # frames[c].cypress_code
     /\ frames[d].st.code # frames[d].cypress_code

(***************************************************************************)
(* Repeated runs: the caller converts a text and converts the same text    *)
(* again in the same mode.  The texts hold constructs on which several     *)
(* table patterns overlap.                                                 *)
(***************************************************************************)
RepeatForms ==
  {"cy.url().should('include', '/dashboard')",
   "cy.url()",
   "cy.get('#a').should('be.visible')"}

InitRepeat ==
  /\ stmts \in UNION {[1..k -> RepeatForms] : k \in 0..MaxStmts}
  /\ sep \in Separators
  /\ Len(stmts) <= 1 => sep = ";\n"
  /\ conversion_type = ""
  /\ cypress_code = ""
  /\ converted_code = ""
  /\ explanation = ""
  /\ explanation_parts = <<>>
  /\ calls = 0
  /\ entry = "none"
  /\ outcome = "none"
  /\ frames = NoFrames
  /\ study = NoStudy

\* convert_cypress_code once more, with the arguments of the previous call
Repeat ==
  /\ entry = "convert"
  /\ calls < MaxCalls
  /\ Call(cypress_code, conversion_type)

NextRepeat == Convert \/ Repeat

SpecRepeat == InitRepeat /\ [][NextRepeat]_vars

\* on cy.url().should('include', the pattern registered first wins: cy.url()
\* of basic_syntax in full conversion, the longer pattern of assertions in
\* mode assertions, which has no cy.url() rule
FirstRegisteredWins ==
  (Converted /\ cypress_code = Source
     /\ Contains(Source, "cy.url().should('include',"))
    => /\ conversion_type = "full_conversion"
            => /\ Contains(converted_code, "page.url().should('include',")
               /\ ~Contains(converted_code, "toHaveURL")
       /\ conversion_type = "assertions"
            => Contains(converted_code, "await expect(page).toHaveURL(/.*")

NoDoubledHook ==
  ConvertedOnce => ~Contains(converted_code, "test.test.beforeEach")

\* the names of the alias references cy.get('@name') of a text
AliasRefs(text) == FindAll(text, get_alias_pattern)

\* C23: for every cy.get('@name') of the source, full conversion returns
\* code in which the reference is gone and no locator has the selector
\* '@name'.
AliasUsesVariable ==
  (ConvertedOnce /\ conversion_type = "full_conversion")
    => \A k \in 1..Len(AliasRefs(Source)) :
         /\ ~Contains(converted_code,
               "page.locator('@" \o AliasRefs(Source)[k][1] \o "')")
         /\ ~Contains(converted_code,
               "cy.get('@" \o AliasRefs(Source)[k][1] \o "')")

\* the places of a text where it( ends a longer name
NameTails(text) ==
  {i \in 2..Len(text) :
     StartsWithAt(text, "it(", i) /\ SubSeq(text, i - 1, i - 1) \in NameChars}

\* C24: in basic_syntax and full_conversion, a name of the source that ends
\* in it, followed by (, does not come back with test( in place of it(.
ItRuleOnlyCallSites ==
  (ConvertedOnce /\ conversion_type \in {"basic_syntax", "full_conversion"})
    => \A i \in NameTails(Source) :
         ~Contains(converted_code, SubSeq(Source, i - 1, i - 1) \o "test(")

\* C25: when _convert_advanced_patterns reports old -> new for a
\* cy.url().should('include', P) of the source, whatever its spelling, the
\* text old was in the source and is not in the returned code.
EntriesPerformed ==
  (ReturnedOnce /\ entry = "advanced")
    => \A k \in 1..Len(UrlIncludes(Source)) :
         SomeEntryHas("* " \o old_pattern("include", UrlIncludes(Source)[k])
                        \o " -> ")
           => /\ Contains(Source, old_pattern("include", UrlIncludes(Source)[k]))
              /\ ~Contains(converted_code,
                           old_pattern("include", UrlIncludes(Source)[k]))

\* C26: for every statement of the source that is a call of an unknown cy
\* command, the returned code has as many review comments on that call as
\* the source has occurrences of it, and no review comment inside another.
FlaggedExactlyOnce ==
  (ConvertedOnce /\ conversion_type \in ValidModes)
    => \A k \in 1..Len(stmts) :
         IsUnknownCall(stmts[k])
           => /\ Count(converted_code, ReviewComment(stmts[k]))
                   = Count(Source, stmts[k])
              /\ ~Contains(converted_code, ReviewComment(ReviewComment("")))

\* C27: when the source has as many ( as ), { as } and [ as ], so has the
\* code that full conversion returns.
BalancePreserved ==
  (/\ ConvertedOnce
   /\ conversion_type = "full_conversion"
   /\ validate_javascript_syntax(Source))
    => validate_javascript_syntax(converted_code)

\* the aliases A of the cy.wait('@A') of a text
WaitAliases(text) == FindAll(text, wait_alias_pattern)

\* C28: for the cy.wait('@A') of the source, _convert_advanced_patterns
\* returns no waitForResponse on the glob **/**, and two different
\* aliases get different globs.
AliasGlobsDistinct ==
  (ReturnedOnce /\ entry = "advanced")
    => /\ ~Contains(converted_code, "page.waitForResponse('**/**')")
       /\ \A j, k \in 1..Len(WaitAliases(Source)) :
            WaitAliases(Source)[j][1] # WaitAliases(Source)[k][1]
              => AliasGlob(WaitAliases(Source)[j][1])
                   # AliasGlob(WaitAliases(Source)[k][1])

OneRecordSumsMinutes ==
  (study.fresh /\ study.updates > 0)
    => /\ study.result = "returned"
       /\ Len(study.rows) = 1
       /\ study.rows[1].time_spent = <<study.spent>>

====
